---- MODULE Spec2Model ----
(***************************************************************************)
(* Hardware breakpoints (hwbp): the dr7 debug-control register view, the   *)
(* slot allocator, the breakpoint descriptor and the                       *)
(* OpenThread / SuspendThread / GetThreadContext / mutate /                *)
(* SetThreadContext / ResumeThread / CloseHandle protocol of bp_enable     *)
(* and bp_disable.                                                         *)
(***************************************************************************)
EXTENDS Integers, Sequences, FiniteSets, TLC

(***************************************************************************)
(* Bounds of the model.                                                    *)
(***************************************************************************)
\* descriptors malloc can supply to the general host
NBP == 2
\* descriptors malloc can supply to the create+enable scenario host
ScenarioBPs == 5
\* number of high (reserved4) patterns tried by the pure-function harness
NHigh == 2
\* calls of bp_enable made by the host whose calls may overlap
RaceCalls == 2

Procs == {"p1", "p2"}

(***************************************************************************)
(* Enumerations of hwbp.h.                                                 *)
(***************************************************************************)
INSTRUCTION_EXECUTION == 0
DATA_WRITEONLY == 1
IO_READWRITE == 2
DATA_READWRITE == 3

ONE_BYTE == 0
TWO_BYTE == 1
EIGHT_BYTE == 2
FOUR_BYTE == 3

\* the lengths numbered in increasing order
BP_LENGTH_monotonic == [b \in {1, 2, 4, 8} |->
                          CASE b = 1 -> 0 [] b = 2 -> 1 [] b = 4 -> 2 [] b = 8 -> 3]

\* BP_LENGTH as the map from the watched size in bytes to the enumerator value
BP_LENGTH == [b \in {1, 2, 4, 8} |->
                CASE b = 1 -> ONE_BYTE
                  [] b = 2 -> TWO_BYTE
                  [] b = 8 -> EIGHT_BYTE
                  [] b = 4 -> FOUR_BYTE]

(***************************************************************************)
(* The dr7 union: `flags' is a vector of 64 bits (bit 0 = least            *)
(* significant), the named bit-fields are views of consecutive bit ranges  *)
(* allocated in declaration order.                                         *)
(***************************************************************************)
\* a declaration whose last field is one bit short
dr7_decl_reserved4_31 ==
  << <<"local_breakpoint_0", 1>>, <<"global_breakpoint_0", 1>>,
     <<"local_breakpoint_1", 1>>, <<"global_breakpoint_1", 1>>,
     <<"local_breakpoint_2", 1>>, <<"global_breakpoint_2", 1>>,
     <<"local_breakpoint_3", 1>>, <<"global_breakpoint_3", 1>>,
     <<"local_exact_breakpoint", 1>>, <<"global_exact_breakpoint", 1>>,
     <<"reserved1", 1>>, <<"restricted_transactional_memory", 1>>,
     <<"reserved2", 1>>, <<"general_detect", 1>>, <<"reserved3", 2>>,
     <<"read_write_0", 2>>, <<"length_0", 2>>,
     <<"read_write_1", 2>>, <<"length_1", 2>>,
     <<"read_write_2", 2>>, <<"length_2", 2>>,
     <<"read_write_3", 2>>, <<"length_3", 2>>,
     <<"reserved4", 31>> >>

dr7_decl ==
  << <<"local_breakpoint_0", 1>>, <<"global_breakpoint_0", 1>>,
     <<"local_breakpoint_1", 1>>, <<"global_breakpoint_1", 1>>,
     <<"local_breakpoint_2", 1>>, <<"global_breakpoint_2", 1>>,
     <<"local_breakpoint_3", 1>>, <<"global_breakpoint_3", 1>>,
     <<"local_exact_breakpoint", 1>>, <<"global_exact_breakpoint", 1>>,
     <<"reserved1", 1>>, <<"restricted_transactional_memory", 1>>,
     <<"reserved2", 1>>, <<"general_detect", 1>>, <<"reserved3", 2>>,
     <<"read_write_0", 2>>, <<"length_0", 2>>,
     <<"read_write_1", 2>>, <<"length_1", 2>>,
     <<"read_write_2", 2>>, <<"length_2", 2>>,
     <<"read_write_3", 2>>, <<"length_3", 2>>,
     <<"reserved4", 32>> >>

dr7_names == {dr7_decl[k][1] : k \in 1..Len(dr7_decl)}

RECURSIVE WidthSum(_)
WidthSum(k) == IF k = 0 THEN 0 ELSE dr7_decl[k][2] + WidthSum(k - 1)

\* first bit and width of every named field
dr7_layout ==
  [n \in dr7_names |->
     LET k == CHOOSE j \in 1..Len(dr7_decl) : dr7_decl[j][1] = n
     IN  [lo |-> WidthSum(k - 1), w |-> dr7_decl[k][2]]]

Pow2(n) == 2 ^ n

RECURSIVE BitsValue(_, _, _)
BitsValue(flags, lo, w) ==
  IF w = 0 THEN 0 ELSE flags[lo] + 2 * BitsValue(flags, lo + 1, w - 1)

\* read of a bit-field of at most 2 bits (reserved4 is never read as a number)
GetField(flags, n) == BitsValue(flags, dr7_layout[n].lo, dr7_layout[n].w)

\* an assignment whose mask is one bit too wide
SetField_spills(flags, n, v) ==
  LET lo == dr7_layout[n].lo
      w  == dr7_layout[n].w + 1
  IN  [i \in 0..63 |->
         IF i >= lo /\ i < lo + w THEN (v \div Pow2(i - lo)) % 2 ELSE flags[i]]

\* assignment to a bit-field: the value is truncated to the field's width
SetField(flags, n, v) ==
  LET lo == dr7_layout[n].lo
      w  == dr7_layout[n].w
  IN  [i \in 0..63 |->
         IF i >= lo /\ i < lo + w THEN (v \div Pow2(i - lo)) % 2 ELSE flags[i]]

\* the field view of a flags word: every named field's value, kept in
\* binary (bit 0 of the field first) because reserved4 has 32 bits
dr7_decode(flags) ==
  [n \in dr7_names |->
     [j \in 0..(dr7_layout[n].w - 1) |-> flags[dr7_layout[n].lo + j]]]

\* the flags word of a field view: the first k declared fields are assigned,
\* in declaration order, to a union that starts as all zero
RECURSIVE dr7_assign(_, _)
dr7_assign(fields, k) ==
  IF k = 0 THEN [i \in 0..63 |-> 0]
  ELSE LET prev == dr7_assign(fields, k - 1)
           n    == dr7_decl[k][1]
           lo   == dr7_layout[n].lo
           w    == dr7_layout[n].w
       IN  [i \in 0..63 |-> IF i >= lo /\ i < lo + w THEN fields[n][i - lo] ELSE prev[i]]

dr7_encode(fields) == dr7_assign(fields, Len(dr7_decl))

\* the bits of the register set in S, all others clear
Flags(S) == [i \in 0..63 |-> IF i \in S THEN 1 ELSE 0]

(***************************************************************************)
(* hwbp.h: descriptor and the two context mutations.                       *)
(***************************************************************************)
ThreadId == 1
NoBp == [alloc |-> FALSE]

bp_init(lpTarget, threadId, read_write, length) ==
  [alloc |-> TRUE, target |-> lpTarget, threadId |-> threadId,
   read_write |-> read_write, length |-> length, index |-> -1, enabled |-> FALSE]

\* slots tried in the order 0, 1, 3, 2
get_free_index_unordered(_dr7) ==
  IF GetField(_dr7, "local_breakpoint_0") = 0 THEN 0
  ELSE IF GetField(_dr7, "local_breakpoint_1") = 0 THEN 1
  ELSE IF GetField(_dr7, "local_breakpoint_3") = 0 THEN 3
  ELSE IF GetField(_dr7, "local_breakpoint_2") = 0 THEN 2
  ELSE -1

\* slot 1 judged by its global-enable bit
get_free_index_global(_dr7) ==
  IF GetField(_dr7, "local_breakpoint_0") = 0 THEN 0
  ELSE IF GetField(_dr7, "global_breakpoint_1") = 0 THEN 1
  ELSE IF GetField(_dr7, "local_breakpoint_2") = 0 THEN 2
  ELSE IF GetField(_dr7, "local_breakpoint_3") = 0 THEN 3
  ELSE -1

get_free_index(_dr7) ==
  IF GetField(_dr7, "local_breakpoint_0") = 0 THEN 0
  ELSE IF GetField(_dr7, "local_breakpoint_1") = 0 THEN 1
  ELSE IF GetField(_dr7, "local_breakpoint_2") = 0 THEN 2
  ELSE IF GetField(_dr7, "local_breakpoint_3") = 0 THEN 3
  ELSE -1

\* one case of the switch of bp_add_to_ctx:
\* local_breakpoint_n = 1; length_n = bp->length; read_write_n = bp->read_write
ArmSlot(_dr7, l, len, rw, bp) ==
  SetField(SetField(SetField(_dr7, l, 1), len, bp.length), rw, bp.read_write)

\* a case that forgets length_n = 0
ClearSlot_keeps_length(_dr7, l, len, rw) ==
  SetField(SetField(_dr7, l, 0), rw, 0)

\* one case of the switch of bp_remove_from_ctx:
\* local_breakpoint_n = 0; length_n = 0; read_write_n = 0
ClearSlot(_dr7, l, len, rw) ==
  SetField(SetField(SetField(_dr7, l, 0), len, 0), rw, 0)

\* a switch whose case 1 stores the address in Dr0
bp_add_to_ctx_case1_dr0(bp, ctx) ==
  LET _dr7 == ctx.Dr7
      idx  == get_free_index(_dr7)
  IN  IF idx = -1 THEN [ok |-> FALSE, bp |-> bp, ctx |-> ctx]
      ELSE
        LET c1 == CASE idx = 0 -> [ctx EXCEPT !.Dr0 = bp.target]
                    [] idx = 1 -> [ctx EXCEPT !.Dr0 = bp.target]
                    [] idx = 2 -> [ctx EXCEPT !.Dr2 = bp.target]
                    [] idx = 3 -> [ctx EXCEPT !.Dr3 = bp.target]
            d1 == CASE idx = 0 -> ArmSlot(_dr7, "local_breakpoint_0", "length_0", "read_write_0", bp)
                    [] idx = 1 -> ArmSlot(_dr7, "local_breakpoint_1", "length_1", "read_write_1", bp)
                    [] idx = 2 -> ArmSlot(_dr7, "local_breakpoint_2", "length_2", "read_write_2", bp)
                    [] idx = 3 -> ArmSlot(_dr7, "local_breakpoint_3", "length_3", "read_write_3", bp)
        IN  [ok |-> TRUE,
             bp |-> [bp EXCEPT !.index = idx],
             ctx |-> [c1 EXCEPT !.Dr7 = d1]]

\* an enable that arms the slot the descriptor already records, if any
bp_add_to_ctx_reuses_index(bp, ctx) ==
  LET _dr7 == ctx.Dr7
      idx  == IF bp.index \in 0..3 THEN bp.index ELSE get_free_index(_dr7)
  IN  IF idx = -1 THEN [ok |-> FALSE, bp |-> bp, ctx |-> ctx]
      ELSE
        LET c1 == CASE idx = 0 -> [ctx EXCEPT !.Dr0 = bp.target]
                    [] idx = 1 -> [ctx EXCEPT !.Dr1 = bp.target]
                    [] idx = 2 -> [ctx EXCEPT !.Dr2 = bp.target]
                    [] idx = 3 -> [ctx EXCEPT !.Dr3 = bp.target]
            d1 == CASE idx = 0 -> ArmSlot(_dr7, "local_breakpoint_0", "length_0", "read_write_0", bp)
                    [] idx = 1 -> ArmSlot(_dr7, "local_breakpoint_1", "length_1", "read_write_1", bp)
                    [] idx = 2 -> ArmSlot(_dr7, "local_breakpoint_2", "length_2", "read_write_2", bp)
                    [] idx = 3 -> ArmSlot(_dr7, "local_breakpoint_3", "length_3", "read_write_3", bp)
        IN  [ok |-> TRUE,
             bp |-> [bp EXCEPT !.index = idx],
             ctx |-> [c1 EXCEPT !.Dr7 = d1]]

\* result of bp_add_to_ctx: [ok, bp, ctx]
bp_add_to_ctx(bp, ctx) ==
  LET _dr7 == ctx.Dr7
      idx  == get_free_index(_dr7)
  IN  IF idx = -1 THEN [ok |-> FALSE, bp |-> bp, ctx |-> ctx]
      ELSE
        LET c1 == CASE idx = 0 -> [ctx EXCEPT !.Dr0 = bp.target]
                    [] idx = 1 -> [ctx EXCEPT !.Dr1 = bp.target]
                    [] idx = 2 -> [ctx EXCEPT !.Dr2 = bp.target]
                    [] idx = 3 -> [ctx EXCEPT !.Dr3 = bp.target]
            d1 == CASE idx = 0 -> ArmSlot(_dr7, "local_breakpoint_0", "length_0", "read_write_0", bp)
                    [] idx = 1 -> ArmSlot(_dr7, "local_breakpoint_1", "length_1", "read_write_1", bp)
                    [] idx = 2 -> ArmSlot(_dr7, "local_breakpoint_2", "length_2", "read_write_2", bp)
                    [] idx = 3 -> ArmSlot(_dr7, "local_breakpoint_3", "length_3", "read_write_3", bp)
        IN  [ok |-> TRUE,
             bp |-> [bp EXCEPT !.index = idx],
             ctx |-> [c1 EXCEPT !.Dr7 = d1]]

\* result of bp_remove_from_ctx: [ok, bp, ctx]
bp_remove_from_ctx(bp, ctx) ==
  LET _dr7 == ctx.Dr7
  IN  IF bp.index \notin 0..3
      THEN [ok |-> FALSE, bp |-> [bp EXCEPT !.enabled = FALSE], ctx |-> ctx]
      ELSE
        LET c1 == CASE bp.index = 0 -> [ctx EXCEPT !.Dr0 = 0]
                    [] bp.index = 1 -> [ctx EXCEPT !.Dr1 = 0]
                    [] bp.index = 2 -> [ctx EXCEPT !.Dr2 = 0]
                    [] bp.index = 3 -> [ctx EXCEPT !.Dr3 = 0]
            d1 == CASE bp.index = 0 -> ClearSlot(_dr7, "local_breakpoint_0", "length_0", "read_write_0")
                    [] bp.index = 1 -> ClearSlot(_dr7, "local_breakpoint_1", "length_1", "read_write_1")
                    [] bp.index = 2 -> ClearSlot(_dr7, "local_breakpoint_2", "length_2", "read_write_2")
                    [] bp.index = 3 -> ClearSlot(_dr7, "local_breakpoint_3", "length_3", "read_write_3")
        IN  [ok |-> TRUE,
             bp |-> [bp EXCEPT !.index = -1],
             ctx |-> [c1 EXCEPT !.Dr7 = d1]]

(***************************************************************************)
(* State.                                                                  *)
(***************************************************************************)
VARIABLES
  regs,          \* the target thread's debug registers Dr0..Dr3, Dr7
  suspendCount,  \* the target thread's suspend count
  bps,           \* the heap of descriptors: id -> HWBP or NoBp
  host,          \* what the embedding host does: [serial, callers, faults, script, menu, cap]
  pc,            \* per caller: position inside bp_enable / bp_disable
  op,            \* per caller: "enable", "disable" or "none"
  arg,           \* per caller: the descriptor id passed as bp
  hThread,       \* per caller: "null", "open" or "closed"
  ctx,           \* per caller: the local CONTEXT
  ret,           \* per caller: the BOOL to return, "none" while undecided
  calls,         \* per caller: the OS calls made by the running call, in order
  entry,         \* per caller: thread and descriptor as they were at call entry
  hist,          \* scripted host's log: enable calls returned, last call
  t_in,          \* pure-function harness: the dr7 value passed
  t_out          \* pure-function harness: << >>, then <<the value returned>>

vars == <<regs, suspendCount, bps, host, pc, op, arg, hThread, ctx, ret,
          calls, entry, hist, t_in, t_out>>

procVars == <<pc, op, arg, hThread, ctx, ret, calls, entry>>
harness == <<t_in, t_out>>

\* the watch requests a host passes to bp_create: address, condition and
\* the size of the watched region in bytes
Requests ==
  { [target |-> 4096,  read_write |-> DATA_WRITEONLY,        bytes |-> 4],
    [target |-> 8192,  read_write |-> IO_READWRITE,          bytes |-> 2],
    [target |-> 12288, read_write |-> DATA_READWRITE,        bytes |-> 8],
    [target |-> 16384, read_write |-> INSTRUCTION_EXECUTION, bytes |-> 1] }

\* the general host asks for these, in this order, again and again
WatchList ==
  << [target |-> 4096,  read_write |-> DATA_WRITEONLY, bytes |-> 4],
     [target |-> 8192,  read_write |-> IO_READWRITE,   bytes |-> 2],
     [target |-> 12288, read_write |-> DATA_READWRITE, bytes |-> 8] >>

\* CONTEXT ctx = { 0 }
ZeroCtx == [Dr0 |-> 0, Dr1 |-> 0, Dr2 |-> 0, Dr3 |-> 0, Dr7 |-> Flags({})]

\* a thread nobody has touched
CleanRegs == ZeroCtx
\* no local-enable bit set; stale address, type/length, global-enable and
\* reserved bits left behind
StaleRegs == [Dr0 |-> 28672, Dr1 |-> 0, Dr2 |-> 0, Dr3 |-> 0,
              Dr7 |-> Flags({1, 8, 10, 16, 17, 18, 21, 27, 30, 40, 63})]
\* slots 1 and 2 armed by somebody else before the host started; stale
\* type/length bits in slot 3, global-enable and reserved bits set
ForeignRegs == [Dr0 |-> 0, Dr1 |-> 36864, Dr2 |-> 40960, Dr3 |-> 28672,
                Dr7 |-> Flags({2, 4, 7, 9, 10, 20, 22, 23, 24, 25, 29, 30, 33, 63})]

\* slots 0 and 3 armed by somebody else; stale type/length bits in slot 1
OuterRegs == [Dr0 |-> 36864, Dr1 |-> 28672, Dr2 |-> 0, Dr3 |-> 40960,
              Dr7 |-> Flags({0, 1, 6, 8, 10, 13, 16, 17, 19, 21, 22, 28, 31, 32, 47})]

NoEntry == [regs |-> ZeroCtx, suspendCount |-> 0, bp |-> NoBp]
NoHist == [enables |-> 0,
           last |-> [op |-> "none", bp |-> 0, ok |-> FALSE, regs |-> ZeroCtx, bp0 |-> NoBp]]

BPs == 1..(IF NBP > ScenarioBPs THEN NBP ELSE ScenarioBPs)

InitProcs ==
  /\ pc = [p \in Procs |-> "idle"]
  /\ op = [p \in Procs |-> "none"]
  /\ arg = [p \in Procs |-> 0]
  /\ hThread = [p \in Procs |-> "null"]
  /\ ctx = [p \in Procs |-> ZeroCtx]
  /\ ret = [p \in Procs |-> "none"]
  /\ calls = [p \in Procs |-> << >>]
  /\ entry = [p \in Procs |-> NoEntry]

InitHarness ==
  /\ t_in = Flags({})
  /\ t_out = << >>

InitThread(R, S) ==
  /\ regs \in R
  /\ suspendCount \in S
  /\ bps = [d \in BPs |-> NoBp]
  /\ hist = NoHist

\* two callers whose calls may overlap, on an OS that does not fail
InitRace ==
  /\ InitThread({ForeignRegs, OuterRegs}, {0})
  /\ host = [serial |-> FALSE, callers |-> Procs, faults |-> FALSE, script |-> TRUE,
             menu |-> "list", cap |-> NBP]
  /\ InitProcs /\ InitHarness

\* one caller, so no two calls overlap; OS primitives may fail
Init ==
  /\ InitThread({ForeignRegs, OuterRegs}, {0, 1})
  /\ host = [serial |-> TRUE, callers |-> {"p1"}, faults |-> TRUE, script |-> FALSE,
             menu |-> "list", cap |-> NBP]
  /\ InitProcs /\ InitHarness

(***************************************************************************)
(* Operations.                                                             *)
(***************************************************************************)
\* an OS primitive that can fail does so only when the host's OS may fail
Outcomes == IF host.faults THEN BOOLEAN ELSE {TRUE}

\* a host that serializes starts an operation only when no call is running
Quiet == host.serial => \A q \in Procs : pc[q] = "idle"

Allocated == {d \in BPs : bps[d].alloc}

\* what the host asks bp_create for next: any request, or the next entry of
\* its list
Menu ==
  IF host.menu = "any" THEN Requests
  ELSE {WatchList[(Cardinality(Allocated) % Len(WatchList)) + 1]}

Log(p, f, ok) == calls' = [calls EXCEPT ![p] = Append(@, [f |-> f, ok |-> ok])]

\* bp_create: malloc hands out the lowest free cell; when it returns NULL
\* nothing changes
bp_create(r) ==
  /\ Quiet
  /\ r \in Menu
  /\ Cardinality(Allocated) < host.cap
  /\ LET d == CHOOSE x \in BPs \ Allocated : \A y \in BPs \ Allocated : x <= y
     IN  bps' = [bps EXCEPT ![d] = bp_init(r.target, ThreadId, r.read_write, BP_LENGTH[r.bytes])]
  /\ UNCHANGED <<regs, suspendCount, host, procVars, hist, harness>>

\* entry of bp_enable / bp_disable
Begin(p, d, o) ==
  /\ p \in host.callers
  /\ pc[p] = "idle"
  /\ Quiet
  /\ d \in Allocated
  /\ pc' = [pc EXCEPT ![p] = "open"]
  /\ op' = [op EXCEPT ![p] = o]
  /\ arg' = [arg EXCEPT ![p] = d]
  /\ entry' = [entry EXCEPT ![p] = [regs |-> regs, suspendCount |-> suspendCount, bp |-> bps[d]]]
  /\ UNCHANGED <<regs, suspendCount, bps, host, hThread, ctx, ret, calls, hist, harness>>

\* a scripted host stops after ScenarioBPs calls of bp_enable; a host whose
\* calls may overlap makes RaceCalls of them
bp_enable(p, d) ==
  /\ host.script => hist.enables < ScenarioBPs
  /\ ~host.serial =>
        hist.enables + Cardinality({q \in Procs : pc[q] # "idle"}) < RaceCalls
  /\ Begin(p, d, "enable")

bp_disable(p, d) == Begin(p, d, "disable")

\* HANDLE hThread = OpenThread(...); if (!hThread) return FALSE;
OpenThread(p) ==
  /\ pc[p] = "open"
  /\ \E ok \in Outcomes :
       /\ Log(p, "OpenThread", ok)
       /\ IF ok
          THEN /\ hThread' = [hThread EXCEPT ![p] = "open"]
               /\ pc' = [pc EXCEPT ![p] = "suspend"]
               /\ ret' = ret
          ELSE /\ hThread' = hThread
               /\ pc' = [pc EXCEPT ![p] = "return"]
               /\ ret' = [ret EXCEPT ![p] = FALSE]
  /\ UNCHANGED <<regs, suspendCount, bps, host, op, arg, ctx, entry, hist, harness>>

\* a failure path that returns without CloseHandle
SuspendThread_leaks_handle(p) ==
  /\ pc[p] = "suspend"
  /\ \E ok \in Outcomes :
       /\ Log(p, "SuspendThread", ok)
       /\ IF ok
          THEN /\ suspendCount' = suspendCount + 1
               /\ pc' = [pc EXCEPT ![p] = "getctx"]
               /\ ret' = ret
          ELSE /\ suspendCount' = suspendCount
               /\ pc' = [pc EXCEPT ![p] = "return"]
               /\ ret' = [ret EXCEPT ![p] = FALSE]
  /\ ctx' = [ctx EXCEPT ![p] = ZeroCtx]
  /\ UNCHANGED <<regs, bps, host, op, arg, hThread, entry, hist, harness>>

\* if (SuspendThread(hThread) == (DWORD)-1) { CloseHandle(hThread); return FALSE; }
\* CONTEXT ctx = { 0 };
SuspendThread(p) ==
  /\ pc[p] = "suspend"
  /\ \E ok \in Outcomes :
       /\ Log(p, "SuspendThread", ok)
       /\ IF ok
          THEN /\ suspendCount' = suspendCount + 1
               /\ pc' = [pc EXCEPT ![p] = "getctx"]
               /\ ret' = ret
          ELSE /\ suspendCount' = suspendCount
               /\ pc' = [pc EXCEPT ![p] = "close"]
               /\ ret' = [ret EXCEPT ![p] = FALSE]
  /\ ctx' = [ctx EXCEPT ![p] = ZeroCtx]
  /\ UNCHANGED <<regs, bps, host, op, arg, hThread, entry, hist, harness>>

\* a failure path that closes the handle without ResumeThread
GetThreadContext_skips_resume(p) ==
  /\ pc[p] = "getctx"
  /\ \E ok \in Outcomes :
       /\ Log(p, "GetThreadContext", ok)
       /\ IF ok
          THEN /\ ctx' = [ctx EXCEPT ![p] = regs]
               /\ pc' = [pc EXCEPT ![p] = "mutate"]
               /\ ret' = ret
          ELSE /\ ctx' = ctx
               /\ pc' = [pc EXCEPT ![p] = "close"]
               /\ ret' = [ret EXCEPT ![p] = FALSE]
  /\ UNCHANGED <<regs, suspendCount, bps, host, op, arg, hThread, entry, hist, harness>>

\* if (!GetThreadContext(hThread, &ctx)) { ResumeThread; CloseHandle; return FALSE; }
GetThreadContext(p) ==
  /\ pc[p] = "getctx"
  /\ \E ok \in Outcomes :
       /\ Log(p, "GetThreadContext", ok)
       /\ IF ok
          THEN /\ ctx' = [ctx EXCEPT ![p] = regs]
               /\ pc' = [pc EXCEPT ![p] = "mutate"]
               /\ ret' = ret
          ELSE /\ ctx' = ctx
               /\ pc' = [pc EXCEPT ![p] = "resume"]
               /\ ret' = [ret EXCEPT ![p] = FALSE]
  /\ UNCHANGED <<regs, suspendCount, bps, host, op, arg, hThread, entry, hist, harness>>

\* a mutation step that works on the thread's registers instead of the
\* local CONTEXT copy
Mutate_in_place(p, r) ==
  /\ Log(p, "Mutate", r.ok)
  /\ bps' = [bps EXCEPT ![arg[p]] = r.bp]
  /\ ctx' = [ctx EXCEPT ![p] = r.ctx]
  /\ regs' = r.ctx
  /\ IF r.ok
     THEN /\ pc' = [pc EXCEPT ![p] = "setctx"]
          /\ ret' = ret
     ELSE /\ pc' = [pc EXCEPT ![p] = "resume"]
          /\ ret' = [ret EXCEPT ![p] = FALSE]
  /\ UNCHANGED <<suspendCount, host, op, arg, hThread, entry, hist, harness>>

\* a mutation step whose result is not tested
Mutate_unchecked(p, r) ==
  /\ Log(p, "Mutate", r.ok)
  /\ bps' = [bps EXCEPT ![arg[p]] = r.bp]
  /\ ctx' = [ctx EXCEPT ![p] = r.ctx]
  /\ pc' = [pc EXCEPT ![p] = "setctx"]
  /\ UNCHANGED <<regs, suspendCount, host, op, arg, hThread, ret, entry, hist, harness>>

\* the mutation step: r is the result of bp_add_to_ctx / bp_remove_from_ctx
Mutate(p, r) ==
  /\ Log(p, "Mutate", r.ok)
  /\ bps' = [bps EXCEPT ![arg[p]] = r.bp]
  /\ ctx' = [ctx EXCEPT ![p] = r.ctx]
  /\ IF r.ok
     THEN /\ pc' = [pc EXCEPT ![p] = "setctx"]
          /\ ret' = ret
     ELSE /\ pc' = [pc EXCEPT ![p] = "resume"]
          /\ ret' = [ret EXCEPT ![p] = FALSE]
  /\ UNCHANGED <<regs, suspendCount, host, op, arg, hThread, entry, hist, harness>>

\* if (!bp_add_to_ctx(bp, &ctx)) { ResumeThread; CloseHandle; return FALSE; }
AddToCtx(p) ==
  /\ pc[p] = "mutate"
  /\ op[p] = "enable"
  /\ Mutate(p, bp_add_to_ctx(bps[arg[p]], ctx[p]))

\* if (!bp_remove_from_ctx(bp, &ctx)) { ResumeThread; CloseHandle; return FALSE; }
RemoveFromCtx(p) ==
  /\ pc[p] = "mutate"
  /\ op[p] = "disable"
  /\ Mutate(p, bp_remove_from_ctx(bps[arg[p]], ctx[p]))

\* if (!SetThreadContext(hThread, &ctx)) { ResumeThread; CloseHandle; return FALSE; }
\* the write of the register file is one indivisible step
SetThreadContext(p) ==
  /\ pc[p] = "setctx"
  /\ \E ok \in Outcomes :
       /\ Log(p, "SetThreadContext", ok)
       /\ regs' = IF ok THEN ctx[p] ELSE regs
       /\ ret' = [ret EXCEPT ![p] = ok]
  /\ pc' = [pc EXCEPT ![p] = "resume"]
  /\ UNCHANGED <<suspendCount, bps, host, op, arg, hThread, ctx, entry, hist, harness>>

\* ResumeThread(hThread);
ResumeThread(p) ==
  /\ pc[p] = "resume"
  /\ Log(p, "ResumeThread", TRUE)
  /\ suspendCount' = IF suspendCount > 0 THEN suspendCount - 1 ELSE 0
  /\ pc' = [pc EXCEPT ![p] = "close"]
  /\ UNCHANGED <<regs, bps, host, op, arg, hThread, ctx, ret, entry, hist, harness>>

\* CloseHandle(hThread);
CloseHandle(p) ==
  /\ pc[p] = "close"
  /\ Log(p, "CloseHandle", TRUE)
  /\ hThread' = [hThread EXCEPT ![p] = "closed"]
  /\ pc' = [pc EXCEPT ![p] = "return"]
  /\ UNCHANGED <<regs, suspendCount, bps, host, op, arg, ctx, ret, entry, hist, harness>>

\* a bp_disable that returns TRUE without bp->enabled = FALSE
Return_keeps_enabled(p) ==
  /\ pc[p] = "return"
  /\ pc' = [pc EXCEPT ![p] = "ret"]
  /\ bps' = IF ret[p] = TRUE /\ op[p] = "enable"
            THEN [bps EXCEPT ![arg[p]].enabled = TRUE]
            ELSE bps
  /\ UNCHANGED <<regs, suspendCount, host, op, arg, hThread, ctx, ret, calls, entry, hist, harness>>

\* bp->enabled = TRUE (bp_enable) / FALSE (bp_disable); return TRUE;
\* or the return FALSE of a failure path
Return(p) ==
  /\ pc[p] = "return"
  /\ pc' = [pc EXCEPT ![p] = "ret"]
  /\ bps' = IF ret[p] = TRUE
            THEN [bps EXCEPT ![arg[p]].enabled = (op[p] = "enable")]
            ELSE bps
  /\ UNCHANGED <<regs, suspendCount, host, op, arg, hThread, ctx, ret, calls, entry, hist, harness>>

\* the caller has taken the result; the frame of the call is gone; a
\* scripted host notes the call in its log
Ack(p) ==
  /\ pc[p] = "ret"
  /\ hist' = IF host.script
             THEN [enables |-> hist.enables + (IF op[p] = "enable" THEN 1 ELSE 0),
                   last |-> [op |-> op[p], bp |-> arg[p], ok |-> ret[p],
                             regs |-> entry[p].regs, bp0 |-> entry[p].bp]]
             ELSE hist
  /\ pc' = [pc EXCEPT ![p] = "idle"]
  /\ op' = [op EXCEPT ![p] = "none"]
  /\ arg' = [arg EXCEPT ![p] = 0]
  /\ hThread' = [hThread EXCEPT ![p] = "null"]
  /\ ctx' = [ctx EXCEPT ![p] = ZeroCtx]
  /\ ret' = [ret EXCEPT ![p] = "none"]
  /\ calls' = [calls EXCEPT ![p] = << >>]
  /\ entry' = [entry EXCEPT ![p] = NoEntry]
  /\ UNCHANGED <<regs, suspendCount, bps, host, harness>>

Step(p) ==
  \/ OpenThread(p) \/ SuspendThread(p) \/ GetThreadContext(p)
  \/ SetThreadContext(p) \/ ResumeThread(p) \/ CloseHandle(p)
  \/ Return(p) \/ Ack(p)

Next ==
  \/ \E r \in Requests : bp_create(r)
  \/ \E p \in Procs, d \in BPs : bp_enable(p, d)
  \/ \E p \in Procs, d \in BPs : bp_disable(p, d)
  \/ \E p \in Procs : AddToCtx(p)
  \/ \E p \in Procs : RemoveFromCtx(p)
  \/ \E p \in Procs : Step(p)

Spec == Init /\ [][Next]_vars

(***************************************************************************)
(* Scripted hosts.                                                         *)
(***************************************************************************)
\* bp_create and bp_enable only, on a thread without local-enable bits,
\* with an OS that does not fail
InitScenario ==
  /\ InitThread({CleanRegs, StaleRegs}, {0})
  /\ host = [serial |-> TRUE, callers |-> {"p1"}, faults |-> FALSE, script |-> TRUE,
             menu |-> "list", cap |-> ScenarioBPs]
  /\ InitProcs /\ InitHarness

NextScenario ==
  \/ \E r \in Requests : bp_create(r)
  \/ \E p \in Procs, d \in BPs : bp_enable(p, d)
  \/ \E p \in Procs : AddToCtx(p)
  \/ \E p \in Procs : Step(p)

SpecScenario == InitScenario /\ [][NextScenario]_vars

\* two callers of bp_enable whose calls may overlap
SpecRace == InitRace /\ [][NextScenario]_vars

\* one descriptor, every operation, on a thread without local-enable bits,
\* with an OS that may fail
InitLifecycle ==
  /\ InitThread({CleanRegs, StaleRegs}, {0})
  /\ host = [serial |-> TRUE, callers |-> {"p1"}, faults |-> TRUE, script |-> TRUE,
             menu |-> "any", cap |-> 1]
  /\ InitProcs /\ InitHarness

SpecLifecycle == InitLifecycle /\ [][Next]_vars

(***************************************************************************)
(* Harness for the pure functions: get_free_index on a dr7 value.          *)
(***************************************************************************)
HighPattern(h) == IF h = 0 THEN {} ELSE {i \in 8..63 : i % h = 0}

LowPattern(n) == {i \in 0..7 : (n \div Pow2(i)) % 2 = 1}

Dr7Inputs == {Flags(LowPattern(n) \cup HighPattern(h)) : n \in 0..255, h \in 0..NHigh}

InitAlloc ==
  /\ InitThread({CleanRegs}, {0})
  /\ host = [serial |-> TRUE, callers |-> {}, faults |-> FALSE, script |-> FALSE,
             menu |-> "list", cap |-> 0]
  /\ InitProcs
  /\ t_in \in Dr7Inputs
  /\ t_out = << >>

CallGetFreeIndex ==
  /\ t_out = << >>
  /\ t_out' = <<get_free_index(t_in)>>
  /\ UNCHANGED <<regs, suspendCount, bps, host, procVars, hist, t_in>>

NextAlloc == CallGetFreeIndex

SpecAlloc == InitAlloc /\ [][NextAlloc]_vars

\* the same harness for the dr7 union: a flags word is read through the
\* field view and written back through it
CallRoundTrip ==
  /\ t_out = << >>
  /\ t_out' = <<dr7_encode(dr7_decode(t_in))>>
  /\ UNCHANGED <<regs, suspendCount, bps, host, procVars, hist, t_in>>

NextCodec == CallRoundTrip

SpecCodec == InitAlloc /\ [][NextCodec]_vars

(***************************************************************************)
(* Vocabulary of the properties.                                           *)
(***************************************************************************)
Returned(p) == pc[p] = "ret"
Quiescent == \A p \in Procs : pc[p] \in {"idle", "ret"}

\* number of calls of the OS primitive f made by p's call
Count(p, f) == Cardinality({k \in 1..Len(calls[p]) : calls[p][k].f = f})
Succeeded(p, f) == \E k \in 1..Len(calls[p]) : calls[p][k].f = f /\ calls[p][k].ok
Failed(p, f) == \E k \in 1..Len(calls[p]) : calls[p][k].f = f /\ ~calls[p][k].ok

\* the hardware's bit positions (Intel SDM Vol. 3B 17.2.4): Ln is bit 2n,
\* R/Wn bits 16+4n and 17+4n, LENn bits 18+4n and 19+4n
LBit(n) == 2 * n
RWBits(n) == {16 + 4 * n, 17 + 4 * n}
LENBits(n) == {18 + 4 * n, 19 + 4 * n}
SlotBits(n) == {LBit(n)} \cup RWBits(n) \cup LENBits(n)
RWOf(w, n) == w[16 + 4 * n] + 2 * w[17 + 4 * n]
LENOf(w, n) == w[18 + 4 * n] + 2 * w[19 + 4 * n]
DrOf(r, n) == CASE n = 0 -> r.Dr0 [] n = 1 -> r.Dr1 [] n = 2 -> r.Dr2 [] n = 3 -> r.Dr3

NoLocalEnable(w) == \A n \in 0..3 : w[LBit(n)] = 0
FreeSlots(w) == {n \in 0..3 : w[LBit(n)] = 0}
Lowest(S) == CHOOSE n \in S : \A m \in S : n <= m

(***************************************************************************)
(* C1: a call that suspended the thread resumes it exactly once, a call    *)
(* that did not (OpenThread or SuspendThread failed) never resumes it, so  *)
(* at return the suspend count is what it was at entry.                    *)
(***************************************************************************)
C1_ResumeExactlyOnce ==
  \A p \in Procs :
    Returned(p) =>
      /\ Count(p, "ResumeThread") = (IF Succeeded(p, "SuspendThread") THEN 1 ELSE 0)
      /\ suspendCount = entry[p].suspendCount

\* a call whose SetThreadContext failed has returned, on a thread that was
\* already suspended once, and it has resumed once
C1_Witness ==
  \E p \in Procs :
    /\ Returned(p) /\ ret[p] = FALSE
    /\ Failed(p, "SetThreadContext")
    /\ Count(p, "ResumeThread") = 1
    /\ entry[p].suspendCount = 1

(***************************************************************************)
(* C2: a successful OpenThread is matched by exactly one CloseHandle; when *)
(* OpenThread fails there is no CloseHandle, SuspendThread or              *)
(* ResumeThread; no handle is open once the call has returned.             *)
(***************************************************************************)
C2_HandleClosedOnce ==
  \A p \in Procs :
    Returned(p) =>
      /\ hThread[p] # "open"
      /\ IF Succeeded(p, "OpenThread")
         THEN Count(p, "CloseHandle") = 1 /\ hThread[p] = "closed"
         ELSE /\ Count(p, "CloseHandle") = 0
              /\ Count(p, "SuspendThread") = 0
              /\ Count(p, "ResumeThread") = 0

\* a call whose SuspendThread failed has returned with its handle closed
C2_Witness ==
  \E p \in Procs :
    /\ Returned(p)
    /\ Failed(p, "SuspendThread")
    /\ hThread[p] = "closed"
    /\ Count(p, "CloseHandle") = 1

(***************************************************************************)
(* C3: a bp_enable that returns FALSE leaves the descriptor as it was at   *)
(* entry.                                                                  *)
(***************************************************************************)
C3_FailedEnableLeavesDescriptor ==
  \A p \in Procs :
    (Returned(p) /\ op[p] = "enable" /\ ret[p] = FALSE) => bps[arg[p]] = entry[p].bp

(***************************************************************************)
(* C4: whenever no call is running, a descriptor's index is -1 if and only *)
(* if its enabled field is FALSE.                                          *)
(***************************************************************************)
C4_UnassignedIffDisabled ==
  Quiescent =>
    \A d \in Allocated : (bps[d].index = -1) <=> (bps[d].enabled = FALSE)

(***************************************************************************)
(* C5: with serialized calls, no two enabled descriptors record the same   *)
(* slot.                                                                   *)
(***************************************************************************)
C5_EnabledSlotsDistinct ==
  Quiescent =>
    \A d1, d2 \in Allocated :
      (d1 # d2 /\ bps[d1].enabled /\ bps[d2].enabled /\ bps[d1].index \in 0..3)
        => bps[d1].index # bps[d2].index

(***************************************************************************)
(* C6: on a thread whose four local-enable bits are clear, with no OS      *)
(* primitive failing and nothing but bp_create and bp_enable called, the   *)
(* first four bp_enable calls succeed and get slots 0, 1, 2, 3 in call     *)
(* order; the fifth returns FALSE and leaves Dr0..Dr3 and Dr7 as they were.*)
(***************************************************************************)
C6_FourSlotsThenExhausted ==
  \A p \in Procs :
    (Returned(p) /\ op[p] = "enable") =>
      LET k == hist.enables + 1
      IN  /\ k <= 4 => /\ ret[p] = TRUE
                       /\ bps[arg[p]].index = k - 1
                       /\ bps[arg[p]].enabled
          /\ k = 5 => /\ ret[p] = FALSE
                      /\ Count(p, "SetThreadContext") = 0
                      /\ regs = entry[p].regs

\* five descriptors created, the first four hold slots 0..3, the fifth call
\* of bp_enable, on the fifth descriptor, has returned FALSE
C6_Witness ==
  \E p \in Procs :
    /\ Returned(p) /\ op[p] = "enable" /\ arg[p] = 5
    /\ hist.enables = 4
    /\ ret[p] = FALSE
    /\ \A d \in 1..4 : bps[d].alloc /\ bps[d].enabled /\ bps[d].index = d - 1
    /\ \A n \in 0..3 : regs.Dr7[LBit(n)] = 1

(***************************************************************************)
(* C7: get_free_index returns the lowest n in 0..3 whose local-enable bit  *)
(* (bit 2n) is 0, and -1 exactly when all four are 1; the result is the    *)
(* same for every dr7 value with the same four local-enable bits.          *)
(***************************************************************************)
C7_FirstFit ==
  t_out # << >> =>
    LET v == t_out[1]
    IN  /\ (v = -1) <=> (FreeSlots(t_in) = {})
        /\ v # -1 => (v \in FreeSlots(t_in) /\ v = Lowest(FreeSlots(t_in)))
        /\ \A y \in Dr7Inputs :
             (\A n \in 0..3 : y[LBit(n)] = t_in[LBit(n)]) => get_free_index(y) = v

\* slots 0 and 1 in use, slot 2 free though its global-enable bit and the
\* reserved bits are set: the answer is 2
C7_Witness ==
  /\ t_out = <<2>>
  /\ t_in[0] = 1 /\ t_in[2] = 1 /\ t_in[4] = 0
  /\ t_in[5] = 1 /\ t_in[63] = 1

(***************************************************************************)
(* C8: a successful bp_enable that claims slot n, or a successful          *)
(* bp_disable that clears slot n, changes in Dr7 only bit 2n and the R/Wn  *)
(* and LENn fields, and no address register other than Drn.                *)
(***************************************************************************)
C8_Isolation ==
  \A p \in Procs :
    (Returned(p) /\ ret[p] = TRUE) =>
      LET n == IF op[p] = "enable" THEN bps[arg[p]].index ELSE entry[p].bp.index
      IN  /\ n \in 0..3
          /\ \A b \in (0..63) \ SlotBits(n) : regs.Dr7[b] = entry[p].regs.Dr7[b]
          /\ \A m \in (0..3) \ {n} : DrOf(regs, m) = DrOf(entry[p].regs, m)

\* a successful bp_disable has cleared slot 2 of a thread whose slots 0 and
\* 3 somebody else had armed
C8_Witness ==
  \E p \in Procs :
    /\ Returned(p) /\ ret[p] = TRUE /\ op[p] = "disable"
    /\ entry[p].bp.index = 2
    /\ entry[p].regs.Dr7[LBit(2)] = 1 /\ regs.Dr7[LBit(2)] = 0
    /\ regs.Dr7[LBit(3)] = 1 /\ regs.Dr3 = 40960

(***************************************************************************)
(* C9 as stated: on a thread with the four local-enable bits clear and     *)
(* any Dr7 value otherwise, a successful bp_enable followed by a           *)
(* successful bp_disable of the same descriptor leaves Dr7 as it was       *)
(* before the bp_enable.                                                   *)
(***************************************************************************)
EnableThenDisable(p) ==
  /\ Returned(p) /\ op[p] = "disable" /\ ret[p] = TRUE
  /\ hist.last.op = "enable" /\ hist.last.ok = TRUE /\ hist.last.bp = arg[p]
  /\ NoLocalEnable(hist.last.regs.Dr7)

C9_RoundTripAnyDr7 ==
  \A p \in Procs : EnableThenDisable(p) => regs.Dr7 = hist.last.regs.Dr7

(***************************************************************************)
(* C9 amended: the same, for a thread whose slot 0 read/write and length   *)
(* fields are 0 before the bp_enable; in general Dr7 ends as it was        *)
(* before the bp_enable except that those two fields are 0.                *)
(***************************************************************************)
C9_RoundTrip ==
  \A p \in Procs :
    EnableThenDisable(p) =>
      /\ \A b \in (0..63) \ (RWBits(0) \cup LENBits(0)) :
           regs.Dr7[b] = hist.last.regs.Dr7[b]
      /\ \A b \in RWBits(0) \cup LENBits(0) : regs.Dr7[b] = 0
      /\ (RWOf(hist.last.regs.Dr7, 0) = 0 /\ LENOf(hist.last.regs.Dr7, 0) = 0)
           => regs.Dr7 = hist.last.regs.Dr7

\* an enable/disable pair on a thread that had global-enable, reserved and
\* other slots' bits set but slot 0's fields clear: Dr7 is back
C9_Witness ==
  \E p \in Procs :
    /\ EnableThenDisable(p)
    /\ RWOf(hist.last.regs.Dr7, 0) = 0 /\ LENOf(hist.last.regs.Dr7, 0) = 0
    /\ hist.last.regs.Dr7[1] = 1 /\ hist.last.regs.Dr7[63] = 1
    /\ regs.Dr7 = hist.last.regs.Dr7

(***************************************************************************)
(* C10: after a successful bp_enable of a descriptor created for address   *)
(* a, condition c and a region of b bytes, the descriptor is enabled with  *)
(* index n, the first free slot of the registers read, and the thread has  *)
(* Drn = a, Ln = 1, R/Wn = c and LENn = the code of b, where 1 byte is 0,  *)
(* 2 bytes 1, 8 bytes 2 and 4 bytes 3.                                     *)
(***************************************************************************)
LengthCode(b) == CASE b = 1 -> 0 [] b = 2 -> 1 [] b = 8 -> 2 [] b = 4 -> 3

C10_EnableArmsFirstFree ==
  \A p \in Procs :
    (Returned(p) /\ op[p] = "enable" /\ ret[p] = TRUE) =>
      LET bp == bps[arg[p]]
          r  == CHOOSE q \in Requests : q.target = bp.target
          free == FreeSlots(entry[p].regs.Dr7)
      IN  /\ free # {}
          /\ bp.enabled = TRUE
          /\ bp.index = Lowest(free)
          /\ DrOf(regs, bp.index) = r.target
          /\ regs.Dr7[LBit(bp.index)] = 1
          /\ RWOf(regs.Dr7, bp.index) = r.read_write
          /\ LENOf(regs.Dr7, bp.index) = LengthCode(r.bytes)

\* write-only, 4 bytes, at 0x1000 on a clean thread: slot 0, Dr0 = 0x1000,
\* L0 = 1, R/W0 = 1, LEN0 = 3
C10_Witness ==
  \E p \in Procs :
    /\ Returned(p) /\ op[p] = "enable" /\ ret[p] = TRUE
    /\ entry[p].regs = CleanRegs
    /\ bps[arg[p]].index = 0 /\ bps[arg[p]].enabled
    /\ regs.Dr0 = 4096
    /\ regs.Dr7 = Flags({0, 16, 18, 19})

(***************************************************************************)
(* C11: after a successful bp_disable of a descriptor whose recorded slot  *)
(* is i, the thread has Dri = 0 and Li, R/Wi and LENi all 0, and the       *)
(* descriptor has index -1 and enabled FALSE.                              *)
(***************************************************************************)
C11_DisableClearsSlot ==
  \A p \in Procs :
    (Returned(p) /\ op[p] = "disable" /\ ret[p] = TRUE) =>
      LET i == entry[p].bp.index
      IN  /\ i \in 0..3
          /\ DrOf(regs, i) = 0
          /\ \A b \in SlotBits(i) : regs.Dr7[b] = 0
          /\ bps[arg[p]].index = -1
          /\ bps[arg[p]].enabled = FALSE

\* an enabled descriptor armed in slot 3 is disabled
C11_Witness ==
  \E p \in Procs :
    /\ Returned(p) /\ op[p] = "disable" /\ ret[p] = TRUE
    /\ entry[p].bp.index = 3 /\ entry[p].bp.enabled
    /\ entry[p].regs.Dr7[LBit(3)] = 1
    /\ entry[p].regs.Dr3 = entry[p].bp.target
    /\ regs.Dr3 = 0 /\ regs.Dr7[LBit(3)] = 0
    /\ bps[arg[p]].index = -1

(***************************************************************************)
(* C12: bp_disable on a descriptor whose index is -1 returns failure       *)
(* without acquiring a thread handle, suspending the thread, or reading or *)
(* writing the thread context, and without changing the descriptor.        *)
(***************************************************************************)
C12_DisableUnassignedFailsAtOnce ==
  \A p \in Procs :
    (pc[p] # "idle" /\ op[p] = "disable" /\ entry[p].bp.index = -1) =>
      /\ calls[p] = << >>
      /\ bps[arg[p]] = entry[p].bp
      /\ Returned(p) => ret[p] = FALSE

(***************************************************************************)
(* C13: when bp_enable or bp_disable returns failure, Dr0..Dr3 and Dr7 of  *)
(* the thread are what they were before the call; during a call they       *)
(* differ from that only once its SetThreadContext has succeeded.          *)
(***************************************************************************)
C13_FailureLeavesRegisters ==
  \A p \in Procs :
    pc[p] # "idle" =>
      /\ ~Succeeded(p, "SetThreadContext") => regs = entry[p].regs
      /\ (Returned(p) /\ ret[p] = FALSE) => regs = entry[p].regs

\* the local copy was armed, SetThreadContext refused it, the call failed
C13_Witness ==
  \E p \in Procs :
    /\ Returned(p) /\ ret[p] = FALSE
    /\ Failed(p, "SetThreadContext")
    /\ ctx[p] # entry[p].regs
    /\ regs = entry[p].regs

(***************************************************************************)
(* C14: two bp_enable calls on different descriptors of one thread can     *)
(* overlap so that both work on the same register snapshot, both pick the  *)
(* same first free slot and both return success.  Whenever that happens    *)
(* both descriptors are enabled and record that slot, while the thread's   *)
(* registers are the context written by the later SetThreadContext: the    *)
(* slot holds that writer's address, condition and length and nothing of   *)
(* the other's.                                                            *)
(***************************************************************************)
SameSlotRace(p, q) ==
  /\ p # q
  /\ Returned(p) /\ op[p] = "enable" /\ ret[p] = TRUE
  /\ Returned(q) /\ op[q] = "enable" /\ ret[q] = TRUE
  /\ arg[p] # arg[q]
  /\ bps[arg[p]].index = bps[arg[q]].index

C14_LostUpdate ==
  \A p, q \in Procs :
    SameSlotRace(p, q) =>
      LET m == bps[arg[p]].index
      IN  /\ m \in 0..3
          /\ bps[arg[p]].enabled /\ bps[arg[q]].enabled
          \* both armed slot m of the same snapshot
          /\ \A b \in (0..63) \ SlotBits(m) : ctx[p].Dr7[b] = ctx[q].Dr7[b]
          /\ \A n \in (0..3) \ {m} : DrOf(ctx[p], n) = DrOf(ctx[q], n)
          /\ \A x \in {p, q} :
                /\ ctx[x].Dr7[LBit(m)] = 1
                /\ DrOf(ctx[x], m) = bps[arg[x]].target
                /\ RWOf(ctx[x].Dr7, m) = bps[arg[x]].read_write
                /\ LENOf(ctx[x].Dr7, m) = bps[arg[x]].length
          \* the thread holds one of the two contexts, whole
          /\ \E w \in {p, q} :
                /\ regs = ctx[w]
                /\ \A o \in {p, q} \ {w} : DrOf(regs, m) # bps[arg[o]].target

\* p1 on descriptor 1 and p2 on descriptor 2 both armed slot 1; the thread
\* holds p2's breakpoint only
C14_Witness ==
  /\ SameSlotRace("p1", "p2")
  /\ arg["p1"] = 1 /\ arg["p2"] = 2
  /\ entry["p1"].regs = OuterRegs /\ entry["p2"].regs = OuterRegs
  /\ bps[1].index = 1 /\ bps[2].index = 1
  /\ bps[1].enabled /\ bps[2].enabled
  /\ regs = ctx["p2"] /\ regs # ctx["p1"]
  /\ regs.Dr1 = bps[2].target /\ regs.Dr1 # bps[1].target

(***************************************************************************)
(* C15: the named fields of the dr7 union cover all 64 bits of flags and   *)
(* no two of them share a bit; reading a 64-bit value through the fields   *)
(* and writing the fields back gives the same value.                       *)
(***************************************************************************)
FieldsAt(i) ==
  {n \in dr7_names : i >= dr7_layout[n].lo /\ i < dr7_layout[n].lo + dr7_layout[n].w}

C15_CodecRoundTrip ==
  /\ \A i \in 0..63 : Cardinality(FieldsAt(i)) = 1
  /\ \A n \in dr7_names : dr7_layout[n].lo + dr7_layout[n].w <= 64
  /\ t_out # << >> => t_out[1] = t_in

\* a value with bits in the low byte, in the slot fields and in reserved4,
\* bit 63 included, came back unchanged
C15_Witness ==
  /\ t_out # << >>
  /\ t_in[0] = 1 /\ t_in[7] = 1 /\ t_in[17] = 1 /\ t_in[31] = 1
  /\ t_in[32] = 1 /\ t_in[63] = 1
  /\ t_out[1] = t_in

(***************************************************************************)
(* C16: within a call GetThreadContext and SetThreadContext come only      *)
(* after a successful SuspendThread and before ResumeThread and            *)
(* CloseHandle, on a thread that is suspended and through a handle that is *)
(* open; GetThreadContext comes before SetThreadContext; SetThreadContext  *)
(* comes only after a mutation step that succeeded; ResumeThread comes     *)
(* before CloseHandle.                                                     *)
(***************************************************************************)
Before(p, k, f) == {j \in 1..(k - 1) : calls[p][j].f = f}
OkBefore(p, k, f) == {j \in Before(p, k, f) : calls[p][j].ok}

C16_ProtocolOrder ==
  \A p \in Procs :
    /\ pc[p] \in {"getctx", "mutate", "setctx"} =>
          suspendCount >= 1 /\ hThread[p] = "open"
    /\ \A k \in 1..Len(calls[p]) :
          LET f == calls[p][k].f
          IN  /\ f \in {"GetThreadContext", "SetThreadContext"} =>
                    /\ OkBefore(p, k, "SuspendThread") # {}
                    /\ Before(p, k, "ResumeThread") = {}
                    /\ Before(p, k, "CloseHandle") = {}
              /\ f = "SetThreadContext" =>
                    /\ OkBefore(p, k, "GetThreadContext") # {}
                    /\ OkBefore(p, k, "Mutate") # {}
              /\ f = "ResumeThread" => Before(p, k, "CloseHandle") = {}
              /\ f = "CloseHandle" =>
                    (OkBefore(p, k, "SuspendThread") # {} => Before(p, k, "ResumeThread") # {})

\* a call that ran the whole protocol
C16_Witness ==
  \E p \in Procs :
    /\ Returned(p)
    /\ Len(calls[p]) = 7
    /\ calls[p][1] = [f |-> "OpenThread", ok |-> TRUE]
    /\ calls[p][2] = [f |-> "SuspendThread", ok |-> TRUE]
    /\ calls[p][3] = [f |-> "GetThreadContext", ok |-> TRUE]
    /\ calls[p][4] = [f |-> "Mutate", ok |-> TRUE]
    /\ calls[p][5].f = "SetThreadContext"
    /\ calls[p][6].f = "ResumeThread"
    /\ calls[p][7].f = "CloseHandle"

(***************************************************************************)
(* C17: bp_enable on a descriptor that is already enabled and armed in     *)
(* slot i is not refused: when it succeeds it has armed another slot j     *)
(* with the same target and the descriptor's index is j, so slot i is      *)
(* still armed in the thread's registers and no descriptor records it; a   *)
(* successful bp_disable that follows clears slot j and leaves slot i      *)
(* armed.                                                                  *)
(***************************************************************************)
\* descriptor b is enabled and armed in the slot it records in registers r
ArmedIn(b, r) ==
  /\ b.enabled
  /\ b.index \in 0..3
  /\ r.Dr7[LBit(b.index)] = 1
  /\ DrOf(r, b.index) = b.target

DoubleEnabled(p) ==
  /\ Returned(p) /\ op[p] = "enable" /\ ret[p] = TRUE
  /\ ArmedIn(entry[p].bp, entry[p].regs)

DisabledAfterDoubleEnable(p) ==
  /\ Returned(p) /\ op[p] = "disable" /\ ret[p] = TRUE
  /\ hist.last.op = "enable" /\ hist.last.ok = TRUE /\ hist.last.bp = arg[p]
  /\ ArmedIn(hist.last.bp0, hist.last.regs)

C17_DoubleEnableLeaksSlot ==
  \A p \in Procs :
    /\ DoubleEnabled(p) =>
          LET i == entry[p].bp.index
              j == bps[arg[p]].index
              t == bps[arg[p]].target
          IN  /\ j \in (0..3) \ {i}
              /\ bps[arg[p]].enabled
              /\ regs.Dr7[LBit(j)] = 1 /\ DrOf(regs, j) = t
              /\ regs.Dr7[LBit(i)] = 1 /\ DrOf(regs, i) = t
              /\ \A d \in Allocated : bps[d].index # i
    /\ DisabledAfterDoubleEnable(p) =>
          LET i == hist.last.bp0.index
              j == entry[p].bp.index
              t == hist.last.bp0.target
          IN  /\ j \in (0..3) \ {i}
              /\ regs.Dr7[LBit(j)] = 0 /\ DrOf(regs, j) = 0
              /\ regs.Dr7[LBit(i)] = 1 /\ DrOf(regs, i) = t
              /\ \A b \in (0..63) \ SlotBits(j) : regs.Dr7[b] = entry[p].regs.Dr7[b]
              /\ \A d \in Allocated : bps[d].index # i

\* enabled in slot 0, enabled again into slot 1, then disabled: slot 1 is
\* free again, slot 0 still watches the target and index is -1
C17_Witness ==
  \E p \in Procs :
    /\ DisabledAfterDoubleEnable(p)
    /\ hist.last.bp0.index = 0
    /\ entry[p].bp.index = 1
    /\ regs.Dr7[LBit(0)] = 1 /\ regs.Dr0 = hist.last.bp0.target
    /\ regs.Dr7[LBit(1)] = 0 /\ regs.Dr1 = 0
    /\ bps[arg[p]].index = -1 /\ ~bps[arg[p]].enabled

(***************************************************************************)
(* C18: between calls of a host that serializes them, on an OS whose       *)
(* primitives may fail, a descriptor whose index is i # -1 has slot i of   *)
(* the thread armed for it: Li = 1 and Dri = the descriptor's target.      *)
(***************************************************************************)
C18_IndexMeansArmed ==
  Quiescent =>
    \A d \in Allocated :
      bps[d].index # -1 =>
        /\ bps[d].index \in 0..3
        /\ regs.Dr7[LBit(bps[d].index)] = 1
        /\ DrOf(regs, bps[d].index) = bps[d].target

(***************************************************************************)
(* C19: when bp_disable returns failure, whatever the reason, the          *)
(* descriptor's index and enabled fields are what they were before the     *)
(* call.                                                                   *)
(***************************************************************************)
C19_FailedDisableLeavesDescriptor ==
  \A p \in Procs :
    (Returned(p) /\ op[p] = "disable" /\ ret[p] = FALSE) =>
      /\ bps[arg[p]].index = entry[p].bp.index
      /\ bps[arg[p]].enabled = entry[p].bp.enabled

(***************************************************************************)
(* C20: with serialized calls a successful bp_disable of descriptor D      *)
(* clears a slot that was armed with D's target, and never the slot        *)
(* recorded by another descriptor that is enabled.                         *)
(***************************************************************************)
C20_DisableClearsOwnSlot ==
  \A p \in Procs :
    (Returned(p) /\ op[p] = "disable" /\ ret[p] = TRUE) =>
      LET i == entry[p].bp.index
      IN  /\ entry[p].regs.Dr7[LBit(i)] = 1
          /\ DrOf(entry[p].regs, i) = entry[p].bp.target
          /\ \A d \in Allocated \ {arg[p]} : ~(bps[d].enabled /\ bps[d].index = i)

====
